---- MODULE Spec2Model ----
(***************************************************************************)
(* Model of the credential-pool dispatcher of python-google-indexing:      *)
(* GoogleIndexingAPI (one credential and its health state) and             *)
(* IndexingManager (the pool, the round-robin cursor, index_url and        *)
(* index_urls), as written in src/google_indexing.py; URLManager (the URL   *)
(* queue) of src/url_manager.py and run_indexing_task of                   *)
(* src/indexing_scheduler.py.                                              *)
(***************************************************************************)
EXTENDS Integers, Sequences, FiniteSets, TLC

VARIABLES
    api_clients,        \* IndexingManager.api_clients: sequence of credentials
    current_key_index,  \* IndexingManager.current_key_index (0-based, as in the code)
    log,                \* logs/indexing_<day>.log: the entries the last call appended
    url_manager_urls,   \* URLManager.urls: sequence of URL records
    qrun,               \* history: per credential, quota errors since its last success/activation
    streak,             \* history: the index_url calls answered in a row, most recent last
    last,               \* history: summary of the last call made on the manager
    prev,               \* history: summary of the call before the last one (pool calls only)
    scheduler           \* the process running start_scheduler: its position, clock and runs

vars == <<api_clients, current_key_index, log, url_manager_urls,
          qrun, streak, last, prev, scheduler>>

----------------------------------------------------------------------------
(* Bounds of the model *)

MaxPool == 2        \* largest pool size explored (add_api_key stops there)
MaxBatch == 2       \* longest URL list handed to index_urls
MaxQueue == 2       \* largest number of records in the URL queue
MaxSelect == 3      \* largest pool on which selections alone are followed
MaxClock == 4       \* the scheduler is followed for this many seconds

----------------------------------------------------------------------------
(* Strings that the code inspects character by character *)

UpperChars == <<"A","B","C","D","E","F","G","H","I","J","K","L","M","N","O","P","Q","R","S","T","U","V","W","X","Y","Z">>
LowerChars == <<"a","b","c","d","e","f","g","h","i","j","k","l","m","n","o","p","q","r","s","t","u","v","w","x","y","z">>

\* str.lower() on one character
LowerChar(c) ==
    IF \E i \in 1..Len(UpperChars) : UpperChars[i] = c
    THEN LowerChars[CHOOSE i \in 1..Len(UpperChars) : UpperChars[i] = c]
    ELSE c

\* str.lower()
Lower(s) == [i \in 1..Len(s) |-> LowerChar(s[i])]

\* Python's `needle in hay` on strings
Contains(needle, hay) ==
    \E k \in 0..(Len(hay) - Len(needle)) :
        \A j \in 1..Len(needle) : hay[k + j] = needle[j]

\* quota_error_messages of _check_quota_error, in list order
quota_error_messages == <<
    <<"Q","u","o","t","a"," ","e","x","c","e","e","d","e","d">>,
    <<"u","s","e","r","R","a","t","e","L","i","m","i","t","E","x","c","e","e","d","e","d">>,
    <<"q","u","o","t","a","E","x","c","e","e","d","e","d">>,
    <<"r","a","t","e","L","i","m","i","t","E","x","c","e","e","d","e","d">>,
    <<"R","a","t","e"," ","L","i","m","i","t"," ","E","x","c","e","e","d","e","d">>,
    <<"D","a","i","l","y"," ","L","i","m","i","t"," ","E","x","c","e","e","d","e","d">> >>

\* error messages the remote API answers with in this model
MsgRateLimit == <<"R","A","T","E"," ","L","I","M","I","T"," ","E","X","C","E","E","D","E","D">>
MsgPermission == <<"P","e","r","m","i","s","s","i","o","n"," ","d","e","n","i","e","d">>
ApiMessages == {MsgRateLimit, MsgPermission}

\* further messages, for the calls that examine the classification itself
MsgUserRateLimit == <<"E","r","r","o","r"," ","4","2","9",":"," ","u","s","e","r","R","a","t","e","L","i","m","i","t","E","x","c","e","e","d","e","d",":"," ","t","o","o"," ","m","a","n","y"," ","r","e","q","u","e","s","t","s">>
MsgInternal == <<"E","r","r","o","r"," ","5","0","0",":"," ","i","n","t","e","r","n","a","l"," ","e","r","r","o","r">>
MsgQuotaExceeded == <<"Q","u","o","t","a"," ","e","x","c","e","e","d","e","d">>
MsgDailyLimit == <<"d","a","i","l","y"," ","l","i","m","i","t"," ","e","x","c","e","e","d","e","d">>
MsgQuotaCamel == <<"Q","U","O","T","A","E","X","C","E","E","D","E","D">>
MsgRateLimitSpaced == <<"R","a","t","e"," "," ","L","i","m","i","t"," ","E","x","c","e","e","d","e","d">>
MsgLimitOnly == <<"L","i","m","i","t"," ","E","x","c","e","e","d","e","d">>
Messages ==
    ApiMessages \cup {MsgUserRateLimit, MsgInternal, MsgQuotaExceeded, MsgDailyLimit,
                      MsgQuotaCamel, MsgRateLimitSpaced, MsgLimitOnly}

\* _check_quota_error comparing without lower()
MatchesQuotaPattern_cased(error) ==
    \E p \in 1..Len(quota_error_messages) :
        Contains(quota_error_messages[p], error)

\* the loop condition of _check_quota_error: some pattern matches
MatchesQuotaPattern(error) ==
    \E p \in 1..Len(quota_error_messages) :
        Contains(Lower(quota_error_messages[p]), Lower(error))

\* evaluated once per message of the model
IsQuotaMessage == [m \in Messages |-> MatchesQuotaPattern(m)]

----------------------------------------------------------------------------
(* Inputs of the model *)

QuotaThreshold == 3

ApiKeysDir == <<"api_keys">>
KeyFileNames == {"a.json", "b.json"}
\* what callers pass to activate_key: a base name, a path in the keys
\* directory, or a name no credential has
KeyArgs == {<<"a.json">>, <<"api_keys", "b.json">>, <<"zzz.json">>}
\* what callers pass to add_api_key: a key file outside the keys directory
AddArgs == {<<"home", "b.json">>}

Urls == {"u1", "u2"}      \* URLs of the lists handed to index_urls
QueueUrls == {"u1", "u2", "u3"}   \* URLs offered to the URL queue
Priorities == {1, 2}      \* priorities given to add_url (1 is the default)
Statuses == {"pending", "indexed", "failed"}
\* what callers pass to add_url: any URL at any priority without metadata,
\* and one URL with a metadata dict
AddUrlArgs ==
    {<<url, priority, {}>> : url \in QueueUrls, priority \in Priorities}
    \cup {<<"u1", 1, {"m"}>>}
CallUrls == {"u1"}        \* URLs submitted one at a time
ValidActions == {"URL_UPDATED", "URL_DELETED"}
Actions == ValidActions \cup {"BOGUS"}

\* what the remote publish call does: answers, fails with a structured
\* HttpError carrying a message, fails with an HttpError whose content is
\* not JSON, or fails with any other exception
RemoteOutcomes ==
    {[kind |-> "ok", msg |-> <<>>],
     [kind |-> "http_malformed", msg |-> <<>>],
     [kind |-> "exception", msg |-> <<>>]}
    \cup {[kind |-> "http", msg |-> m] : m \in ApiMessages}

\* the same with every message of the model
RemoteOutcomesAll ==
    {o \in RemoteOutcomes : o.kind # "http"}
    \cup {[kind |-> "http", msg |-> m] : m \in Messages}

\* os.path.basename and os.path.join on paths given as component sequences
Basename(path) == <<path[Len(path)]>>
PathJoin(dir, name) == dir \o name

----------------------------------------------------------------------------
(* GoogleIndexingAPI *)

\* Optional values: None is the empty set, a value v is {v}
None == {}
Some(v) == {v}

\* GoogleIndexingAPI.__init__ after a successful _initialize_service
NewClient(file) ==
    [service_account_file |-> file,
     is_active |-> TRUE,
     quota_error_count |-> 0,
     last_error |-> None]

\* _check_quota_error deactivating one error late (> instead of >=)
_check_quota_error_late(client, error) ==
    IF IsQuotaMessage[error]
    THEN LET n == client.quota_error_count + 1
         IN [client |-> [client EXCEPT !.quota_error_count = n,
                                       !.is_active = IF n > QuotaThreshold
                                                     THEN FALSE ELSE @],
             quota |-> TRUE]
    ELSE [client |-> client, quota |-> FALSE]

\* _check_quota_error: returns the updated credential and the verdict
_check_quota_error(client, error) ==
    IF IsQuotaMessage[error]
    THEN LET n == client.quota_error_count + 1
         IN [client |-> [client EXCEPT !.quota_error_count = n,
                                       !.is_active = IF n >= QuotaThreshold
                                                     THEN FALSE ELSE @],
             quota |-> TRUE]
    ELSE [client |-> client, quota |-> FALSE]

\* A call result: tag "response" (a dict without "error"), "error" (a dict
\* with "error") or "raise" (an exception leaves the call); detail names it
Result(tag, detail) == [tag |-> tag, detail |-> detail]

\* request_indexing without the reset of quota_error_count on success
request_indexing_noreset(client, url, action, out) ==
    IF ~client.is_active
    THEN [client |-> client, remote |-> FALSE,
          result |-> Result("error", "key_inactive")]
    ELSE IF action \notin ValidActions
    THEN [client |-> client, remote |-> FALSE,
          result |-> Result("raise", "ValueError")]
    ELSE IF out.kind = "ok"
    THEN [client |-> client, remote |-> TRUE,
          result |-> Result("response", "published")]
    ELSE IF out.kind = "http_malformed"
    THEN [client |-> client, remote |-> TRUE,
          result |-> Result("raise", "JSONDecodeError")]
    ELSE IF out.kind = "http"
    THEN LET chk == _check_quota_error(client, out.msg)
         IN IF chk.quota
            THEN [client |-> [chk.client EXCEPT !.last_error = Some(out.msg)],
                  remote |-> TRUE,
                  result |-> Result("error", "quota")]
            ELSE [client |-> chk.client, remote |-> TRUE,
                  result |-> Result("error", "api")]
    ELSE [client |-> client, remote |-> TRUE,
          result |-> Result("error", "unexpected")]

\* request_indexing without the early return for an inactive credential
request_indexing_no_shortcircuit(client, url, action, out) ==
    IF action \notin ValidActions
    THEN [client |-> client, remote |-> FALSE,
          result |-> Result("raise", "ValueError")]
    ELSE IF out.kind = "ok"
    THEN [client |-> [client EXCEPT !.quota_error_count = 0], remote |-> TRUE,
          result |-> Result("response", "published")]
    ELSE IF out.kind = "http_malformed"
    THEN [client |-> client, remote |-> TRUE,
          result |-> Result("raise", "JSONDecodeError")]
    ELSE IF out.kind = "http"
    THEN LET chk == _check_quota_error(client, out.msg)
         IN IF chk.quota
            THEN [client |-> [chk.client EXCEPT !.last_error = Some(out.msg)],
                  remote |-> TRUE,
                  result |-> Result("error", "quota")]
            ELSE [client |-> chk.client, remote |-> TRUE,
                  result |-> Result("error", "api")]
    ELSE [client |-> client, remote |-> TRUE,
          result |-> Result("error", "unexpected")]

\* request_indexing recording the message of every API error in last_error
request_indexing_lasterror_always(client, url, action, out) ==
    IF ~client.is_active
    THEN [client |-> client, remote |-> FALSE,
          result |-> Result("error", "key_inactive")]
    ELSE IF action \notin ValidActions
    THEN [client |-> client, remote |-> FALSE,
          result |-> Result("raise", "ValueError")]
    ELSE IF out.kind = "ok"
    THEN [client |-> [client EXCEPT !.quota_error_count = 0], remote |-> TRUE,
          result |-> Result("response", "published")]
    ELSE IF out.kind = "http_malformed"
    THEN [client |-> client, remote |-> TRUE,
          result |-> Result("raise", "JSONDecodeError")]
    ELSE IF out.kind = "http"
    THEN LET chk == _check_quota_error(client, out.msg)
         IN [client |-> [chk.client EXCEPT !.last_error = Some(out.msg)],
             remote |-> TRUE,
             result |-> Result("error", IF chk.quota THEN "quota" ELSE "api")]
    ELSE [client |-> client, remote |-> TRUE,
          result |-> Result("error", "unexpected")]

\* request_indexing: returns the updated credential, the result and whether
\* the remote publish call was issued
request_indexing(client, url, action, out) ==
    IF ~client.is_active
    THEN [client |-> client, remote |-> FALSE,
          result |-> Result("error", "key_inactive")]
    ELSE IF action \notin ValidActions
    THEN [client |-> client, remote |-> FALSE,
          result |-> Result("raise", "ValueError")]
    ELSE IF out.kind = "ok"
    THEN [client |-> [client EXCEPT !.quota_error_count = 0], remote |-> TRUE,
          result |-> Result("response", "published")]
    ELSE IF out.kind = "http_malformed"
    THEN [client |-> client, remote |-> TRUE,
          result |-> Result("raise", "JSONDecodeError")]
    ELSE IF out.kind = "http"
    THEN LET chk == _check_quota_error(client, out.msg)
         IN IF chk.quota
            THEN [client |-> [chk.client EXCEPT !.last_error = Some(out.msg)],
                  remote |-> TRUE,
                  result |-> Result("error", "quota")]
            ELSE [client |-> chk.client, remote |-> TRUE,
                  result |-> Result("error", "api")]
    ELSE [client |-> client, remote |-> TRUE,
          result |-> Result("error", "unexpected")]

----------------------------------------------------------------------------
(* IndexingManager *)

\* the loop of _get_next_client: `left` iterations remain, `start` is
\* start_idx; sel is the 1-based position of the credential returned, 0 for
\* None; steps counts the credentials examined
RECURSIVE ScanClients(_, _, _, _, _)
ScanClients(clients, cur, start, left, steps) ==
    IF left = 0
    THEN [sel |-> 0, cur |-> cur, steps |-> steps]
    ELSE LET client == clients[cur + 1]
             nxt == (cur + 1) % Len(clients)
         IN IF client.is_active
            THEN [sel |-> cur + 1, cur |-> nxt, steps |-> steps + 1]
            ELSE IF nxt = start
            THEN [sel |-> 0, cur |-> nxt, steps |-> steps + 1]
            ELSE ScanClients(clients, nxt, start, left - 1, steps + 1)

\* _get_next_client as a plain round robin that does not test is_active
_get_next_client_nofilter(clients, cur) ==
    IF Len(clients) = 0
    THEN [sel |-> 0, cur |-> cur, steps |-> 0]
    ELSE [sel |-> cur + 1, cur |-> (cur + 1) % Len(clients), steps |-> 1]

\* _get_next_client scanning one credential too few
_get_next_client_short(clients, cur) ==
    IF Len(clients) = 0
    THEN [sel |-> 0, cur |-> cur, steps |-> 0]
    ELSE IF \A i \in 1..Len(clients) : ~clients[i].is_active
    THEN [sel |-> 0, cur |-> cur, steps |-> 0]
    ELSE ScanClients(clients, cur, cur, Len(clients) - 1, 0)

\* _get_next_client starting every scan at the head of the pool
_get_next_client_fromhead(clients, cur) ==
    IF Len(clients) = 0
    THEN [sel |-> 0, cur |-> cur, steps |-> 0]
    ELSE IF \A i \in 1..Len(clients) : ~clients[i].is_active
    THEN [sel |-> 0, cur |-> cur, steps |-> 0]
    ELSE ScanClients(clients, 0, 0, Len(clients), 0)

\* _get_next_client advancing the cursor once per call, not once per
\* credential examined
_get_next_client_one_step(clients, cur) ==
    IF Len(clients) = 0
    THEN [sel |-> 0, cur |-> cur, steps |-> 0]
    ELSE IF \A i \in 1..Len(clients) : ~clients[i].is_active
    THEN [sel |-> 0, cur |-> cur, steps |-> 0]
    ELSE LET r == ScanClients(clients, cur, cur, Len(clients), 0)
         IN [r EXCEPT !.cur = (cur + 1) % Len(clients)]

\* _get_next_client leaving the cursor on the credential it selected
_get_next_client_sticky(clients, cur) ==
    IF Len(clients) = 0
    THEN [sel |-> 0, cur |-> cur, steps |-> 0]
    ELSE IF \A i \in 1..Len(clients) : ~clients[i].is_active
    THEN [sel |-> 0, cur |-> cur, steps |-> 0]
    ELSE LET r == ScanClients(clients, cur, cur, Len(clients), 0)
         IN [r EXCEPT !.cur = IF r.sel = 0 THEN r.cur ELSE r.sel - 1]

\* _get_next_client leaving the cursor at len(pool) instead of wrapping to 0
_get_next_client_nowrap(clients, cur) ==
    IF Len(clients) = 0
    THEN [sel |-> 0, cur |-> cur, steps |-> 0]
    ELSE IF \A i \in 1..Len(clients) : ~clients[i].is_active
    THEN [sel |-> 0, cur |-> cur, steps |-> 0]
    ELSE LET r == ScanClients(clients, cur, cur, Len(clients), 0)
         IN [r EXCEPT !.cur = IF r.cur = 0 THEN Len(clients) ELSE r.cur]

\* _get_next_client: the credential selected (0 for None), the cursor after
\* the call and the number of credentials examined
_get_next_client(clients, cur) ==
    IF Len(clients) = 0
    THEN [sel |-> 0, cur |-> cur, steps |-> 0]
    ELSE IF \A i \in 1..Len(clients) : ~clients[i].is_active
    THEN [sel |-> 0, cur |-> cur, steps |-> 0]
    ELSE ScanClients(clients, cur, cur, Len(clients), 0)

\* _log_result: one entry appended to the day's log file
LogEntry(url, action, response) ==
    [url |-> url, action |-> action,
     success |-> (response.tag = "response"),
     response |-> response]

_log_result(lg, url, action, response) ==
    Append(lg, LogEntry(url, action, response))

\* index_url without the `if not client` test: None.request_indexing raises
index_url_unguarded(d, url, action, out) ==
    LET nc == _get_next_client(d.clients, d.cur)
    IN IF nc.sel = 0
       THEN [clients |-> d.clients, cur |-> nc.cur, log |-> d.log,
             result |-> Result("raise", "AttributeError"),
             sel |-> 0, remote |-> FALSE,
             steps |-> nc.steps, logged |-> 0]
       ELSE LET r == request_indexing(d.clients[nc.sel], url, action, out)
                clients2 == [d.clients EXCEPT ![nc.sel] = r.client]
            IN [clients |-> clients2, cur |-> nc.cur,
                log |-> IF r.result.tag = "raise" THEN d.log
                        ELSE _log_result(d.log, url, action, r.result),
                result |-> r.result,
                sel |-> nc.sel, remote |-> r.remote,
                steps |-> nc.steps,
                logged |-> IF r.result.tag = "raise" THEN 0 ELSE 1]

\* index_url on the manager state d = [clients, cur, log]; the outcome
\* carries the new state, the result, and what the call did on the way
index_url(d, url, action, out) ==
    LET nc == _get_next_client(d.clients, d.cur)
    IN IF nc.sel = 0
       THEN [clients |-> d.clients, cur |-> nc.cur, log |-> d.log,
             result |-> Result("error", "no_active_clients"),
             sel |-> 0, remote |-> FALSE,
             steps |-> nc.steps, logged |-> 0]
       ELSE LET r == request_indexing(d.clients[nc.sel], url, action, out)
                clients2 == [d.clients EXCEPT ![nc.sel] = r.client]
            IN [clients |-> clients2, cur |-> nc.cur,
                log |-> IF r.result.tag = "raise" THEN d.log
                        ELSE _log_result(d.log, url, action, r.result),
                result |-> r.result,
                sel |-> nc.sel, remote |-> r.remote,
                steps |-> nc.steps,
                logged |-> IF r.result.tag = "raise" THEN 0 ELSE 1]

\* the loop of index_urls from position k on; an exception leaving
\* index_url leaves index_urls too, and the list built so far is lost.
\* calls records every index_url made, in order
RECURSIVE IndexUrlsFrom(_, _, _, _, _, _, _)
IndexUrlsFrom(d, urls, action, outs, k, results, calls) ==
    IF k > Len(urls)
    THEN [clients |-> d.clients, cur |-> d.cur, log |-> d.log,
          raised |-> FALSE, results |-> results, calls |-> calls]
    ELSE LET r == index_url(d, urls[k], action, outs[k])
             d2 == [clients |-> r.clients, cur |-> r.cur, log |-> r.log]
             call == [url |-> urls[k], result |-> r.result, sel |-> r.sel,
                      cur0 |-> d.cur, remote |-> r.remote]
         IN IF r.result.tag = "raise"
            THEN [clients |-> r.clients, cur |-> r.cur, log |-> r.log,
                  raised |-> TRUE, results |-> <<>>,
                  calls |-> Append(calls, call)]
            ELSE IndexUrlsFrom(d2, urls, action, outs, k + 1,
                               Append(results, [url |-> urls[k], result |-> r.result]),
                               Append(calls, call))

index_urls(d, urls, action, outs) ==
    IndexUrlsFrom(d, urls, action, outs, 1, <<>>, <<>>)

\* activate_key: position of the first credential whose file, or the base
\* name of whose file, equals key_file; 0 when there is none
KeyMatches(client, key_file) ==
    \/ client.service_account_file = key_file
    \/ Basename(client.service_account_file) = key_file

FindKey(clients, key_file) ==
    IF \E i \in 1..Len(clients) : KeyMatches(clients[i], key_file)
    THEN CHOOSE i \in 1..Len(clients) :
            /\ KeyMatches(clients[i], key_file)
            /\ \A j \in 1..(i - 1) : ~KeyMatches(clients[j], key_file)
    ELSE 0

\* activate_key reactivating the whole pool when no credential matches
activate_key_all_on_miss(clients, key_file) ==
    LET i == FindKey(clients, key_file)
    IN IF i = 0
       THEN [clients |-> [j \in 1..Len(clients) |->
                             [clients[j] EXCEPT !.is_active = TRUE,
                                                !.quota_error_count = 0]],
             found |-> FALSE, idx |-> 0]
       ELSE [clients |-> [clients EXCEPT ![i].is_active = TRUE,
                                         ![i].quota_error_count = 0],
             found |-> TRUE, idx |-> i]

\* activate_key setting the flag but not the count
activate_key_flag_only(clients, key_file) ==
    LET i == FindKey(clients, key_file)
    IN IF i = 0
       THEN [clients |-> clients, found |-> FALSE, idx |-> 0]
       ELSE [clients |-> [clients EXCEPT ![i].is_active = TRUE],
             found |-> TRUE, idx |-> i]

\* activate_key resetting the count but not the flag
activate_key_count_only(clients, key_file) ==
    LET i == FindKey(clients, key_file)
    IN IF i = 0
       THEN [clients |-> clients, found |-> FALSE, idx |-> 0]
       ELSE [clients |-> [clients EXCEPT ![i].quota_error_count = 0],
             found |-> TRUE, idx |-> i]

activate_key(clients, key_file) ==
    LET i == FindKey(clients, key_file)
    IN IF i = 0
       THEN [clients |-> clients, found |-> FALSE, idx |-> 0]
       ELSE [clients |-> [clients EXCEPT ![i].is_active = TRUE,
                                         ![i].quota_error_count = 0],
             found |-> TRUE, idx |-> i]

\* add_api_key keeping the credential whose service failed to initialize,
\* as _initialize_service leaves it: inactive, the error in last_error
add_api_key_keeps_failed(clients, service_account_file, loads) ==
    LET destination == PathJoin(ApiKeysDir, Basename(service_account_file))
    IN IF loads
       THEN [clients |-> Append(clients, NewClient(destination)), added |-> TRUE]
       ELSE [clients |-> Append(clients,
                            [NewClient(destination) EXCEPT
                                !.is_active = FALSE,
                                !.last_error = Some(<<"l","o","a","d">>)]),
             added |-> FALSE]

\* add_api_key putting the new credential at the head of the pool
add_api_key_prepend(clients, service_account_file, loads) ==
    LET destination == PathJoin(ApiKeysDir, Basename(service_account_file))
    IN IF loads
       THEN [clients |-> <<NewClient(destination)>> \o clients, added |-> TRUE]
       ELSE [clients |-> clients, added |-> FALSE]

\* add_api_key: loads is whether copying the file and building the service
\* from it both work
add_api_key(clients, service_account_file, loads) ==
    LET destination == PathJoin(ApiKeysDir, Basename(service_account_file))
    IN IF loads
       THEN [clients |-> Append(clients, NewClient(destination)), added |-> TRUE]
       ELSE [clients |-> clients, added |-> FALSE]

----------------------------------------------------------------------------
(* URLManager *)

\* a record of the queue; metadata is an optional value, `metadata or {}`
\* storing the empty dict for None
UrlData(url, priority, status, metadata) ==
    [url |-> url, priority |-> priority, status |-> status,
     metadata |-> metadata]

\* add_url without the test for a URL already stored
add_url_unchecked(us, url, priority, metadata) ==
    [urls |-> Append(us, UrlData(url, priority, "pending", metadata)),
     added |-> TRUE]

\* add_url: appends a pending record unless the URL is already there
add_url(us, url, priority, metadata) ==
    IF \E i \in 1..Len(us) : us[i].url = url
    THEN [urls |-> us, added |-> FALSE]
    ELSE [urls |-> Append(us, UrlData(url, priority, "pending", metadata)),
          added |-> TRUE]

\* add_urls: add_url for every URL of the list, counting the ones added
RECURSIVE AddUrlsFrom(_, _, _, _, _)
AddUrlsFrom(us, urls, priority, k, count) ==
    IF k > Len(urls) THEN [urls |-> us, count |-> count]
    ELSE LET r == add_url(us, urls[k], priority, None)
         IN AddUrlsFrom(r.urls, urls, priority, k + 1,
                        IF r.added THEN count + 1 ELSE count)

add_urls(us, urls, priority) == AddUrlsFrom(us, urls, priority, 1, 0)

\* the sort key of get_pending_urls: the priority of the first record with
\* that URL, 0 when there is none
PriorityOf(us, url) ==
    IF \E i \in 1..Len(us) : us[i].url = url
    THEN us[CHOOSE i \in 1..Len(us) :
               /\ us[i].url = url
               /\ \A j \in 1..(i - 1) : us[j].url # url].priority
    ELSE 0

\* sorted(filtered, key=..., reverse=True): a stable sort, so an element
\* goes behind every element whose key is at least its own
RECURSIVE SortedFrom(_, _, _, _)
SortedFrom(us, filtered, k, acc) ==
    IF k > Len(filtered) THEN acc
    ELSE LET p == PriorityOf(us, filtered[k])
             n == Cardinality({j \in 1..Len(acc) : PriorityOf(us, acc[j]) >= p})
         IN SortedFrom(us, filtered, k + 1,
                       SubSeq(acc, 1, n) \o <<filtered[k]>> \o SubSeq(acc, n + 1, Len(acc)))

\* the slice sorted_urls[:limit]
SliceTo(seq, limit) ==
    IF limit >= 0
    THEN SubSeq(seq, 1, IF limit < Len(seq) THEN limit ELSE Len(seq))
    ELSE SubSeq(seq, 1, IF Len(seq) + limit > 0 THEN Len(seq) + limit ELSE 0)

\* the list comprehension of get_pending_urls
RECURSIVE FilteredFrom(_, _, _, _)
FilteredFrom(us, priority_threshold, k, acc) ==
    IF k > Len(us) THEN acc
    ELSE FilteredFrom(us, priority_threshold, k + 1,
            IF /\ us[k].status = "pending"
               /\ \/ priority_threshold = None
                  \/ \A t \in priority_threshold : us[k].priority >= t
            THEN Append(acc, us[k].url)
            ELSE acc)

\* get_pending_urls sorting with the ties turned round
get_pending_urls_ties_reversed(us, limit, priority_threshold) ==
    LET filtered == FilteredFrom(us, priority_threshold, 1, <<>>)
        rev == [i \in 1..Len(filtered) |-> filtered[Len(filtered) + 1 - i]]
        sorted_urls == SortedFrom(us, rev, 1, <<>>)
    IN IF limit = None THEN sorted_urls
       ELSE SliceTo(sorted_urls, CHOOSE l \in limit : TRUE)

\* get_pending_urls: limit and priority_threshold are optional
get_pending_urls(us, limit, priority_threshold) ==
    LET filtered == FilteredFrom(us, priority_threshold, 1, <<>>)
        sorted_urls == SortedFrom(us, filtered, 1, <<>>)
    IN IF limit = None THEN sorted_urls
       ELSE SliceTo(sorted_urls, CHOOSE l \in limit : TRUE)

\* position of the first record of url, 0 when there is none
FindUrl(us, url) ==
    IF \E i \in 1..Len(us) : us[i].url = url
    THEN CHOOSE i \in 1..Len(us) :
            /\ us[i].url = url
            /\ \A j \in 1..(i - 1) : us[j].url # url
    ELSE 0

\* mark_as_indexed
mark_as_indexed(us, url, success) ==
    LET i == FindUrl(us, url)
    IN IF i = 0
       THEN [urls |-> us, found |-> FALSE]
       ELSE [urls |-> [us EXCEPT ![i].status = IF success THEN "indexed" ELSE "failed"],
             found |-> TRUE]

\* remove_url
remove_url(us, url) ==
    LET kept == SelectSeq(us, LAMBDA u : u.url # url)
    IN [urls |-> kept, removed |-> Len(kept) < Len(us)]

\* reset_failed_urls turning the indexed records to pending as well
reset_failed_urls_all(us) ==
    [urls |-> [i \in 1..Len(us) |->
                  IF us[i].status # "pending"
                  THEN [us[i] EXCEPT !.status = "pending"]
                  ELSE us[i]],
     count |-> Cardinality({i \in 1..Len(us) : us[i].status # "pending"})]

\* reset_failed_urls
reset_failed_urls(us) ==
    [urls |-> [i \in 1..Len(us) |->
                  IF us[i].status = "failed"
                  THEN [us[i] EXCEPT !.status = "pending"]
                  ELSE us[i]],
     count |-> Cardinality({i \in 1..Len(us) : us[i].status = "failed"})]

----------------------------------------------------------------------------
(* IndexingScheduler *)

\* the loop over results of run_indexing_task; success is
\* `"error" not in result["result"]`
RECURSIVE MarkResults(_, _, _)
MarkResults(us, results, k) ==
    IF k > Len(results) THEN us
    ELSE MarkResults(mark_as_indexed(us, results[k].url,
                                     results[k].result.tag # "error").urls,
                     results, k + 1)

\* the loop over results marking every URL of the batch as indexed
RECURSIVE MarkResultsIndexed(_, _, _)
MarkResultsIndexed(us, results, k) ==
    IF k > Len(results) THEN us
    ELSE MarkResultsIndexed(mark_as_indexed(us, results[k].url, TRUE).urls,
                            results, k + 1)

\* the URLs run_indexing_task hands to index_urls
PendingBatch(us, batch_size, retry_failed) ==
    get_pending_urls(IF retry_failed THEN reset_failed_urls(us).urls ELSE us,
                     Some(batch_size), None)

\* run_indexing_task with success=True for every URL of the batch
run_indexing_task_all_indexed(d, us, batch_size, retry_failed, outs) ==
    LET us1 == IF retry_failed THEN reset_failed_urls(us).urls ELSE us
        pending_urls == get_pending_urls(us1, Some(batch_size), None)
    IN IF pending_urls = <<>>
       THEN [clients |-> d.clients, cur |-> d.cur, log |-> d.log, urls |-> us1,
             batch |-> <<>>, raised |-> FALSE, results |-> <<>>, calls |-> <<>>]
       ELSE LET r == index_urls(d, pending_urls, "URL_UPDATED", outs)
            IN [clients |-> r.clients, cur |-> r.cur, log |-> r.log,
                urls |-> IF r.raised THEN us1
                         ELSE MarkResultsIndexed(us1, r.results, 1),
                batch |-> pending_urls, raised |-> r.raised,
                results |-> r.results, calls |-> r.calls]

\* run_indexing_task on the manager state d and the queue us; outs is what
\* the remote call does for each URL of the batch.  An exception leaving
\* index_urls leaves the task before any status is updated
run_indexing_task(d, us, batch_size, retry_failed, outs) ==
    LET us1 == IF retry_failed THEN reset_failed_urls(us).urls ELSE us
        pending_urls == get_pending_urls(us1, Some(batch_size), None)
    IN IF pending_urls = <<>>
       THEN [clients |-> d.clients, cur |-> d.cur, log |-> d.log, urls |-> us1,
             batch |-> <<>>, raised |-> FALSE, results |-> <<>>, calls |-> <<>>]
       ELSE LET r == index_urls(d, pending_urls, "URL_UPDATED", outs)
            IN [clients |-> r.clients, cur |-> r.cur, log |-> r.log,
                urls |-> IF r.raised THEN us1
                         ELSE MarkResults(us1, r.results, 1),
                batch |-> pending_urls, raised |-> r.raised,
                results |-> r.results, calls |-> r.calls]

\* the process before start_scheduler is called
NotStarted ==
    [pc |-> "not_started", interval |-> 0, batch_size |-> 0,
     retry_failed |-> FALSE, clock |-> 0, next_run |-> 0, runs |-> <<>>]

\* an execution of run_indexing_task entered at time clock, for a job that
\* was due at time due
NewRun(clock, due) ==
    [pc |-> "start", batch |-> <<>>, results |-> <<>>,
     started |-> clock, due |-> due]

\* schedule.run_pending() handing a due job to a thread of its own and
\* going on with the loop
run_pending_threaded(s) ==
    IF s.clock >= s.next_run
    THEN [s EXCEPT !.pc = "sleep", !.next_run = s.clock + s.interval,
                   !.runs = Append(@, NewRun(s.clock, s.next_run))]
    ELSE [s EXCEPT !.pc = "sleep"]

\* schedule.run_pending() in the loop of start_scheduler: a due job is
\* called, and the loop goes on when the call has returned
run_pending(s) ==
    IF s.clock >= s.next_run
    THEN [s EXCEPT !.pc = "in_job",
                   !.runs = Append(@, NewRun(s.clock, s.next_run))]
    ELSE [s EXCEPT !.pc = "sleep"]

\* execution e of run_indexing_task returns to where it was called from:
\* the line after the immediate run, or the job, which is then scheduled
\* again one interval later
Returned(s, e) ==
    LET rest == [i \in 1..(Len(s.runs) - 1) |->
                    IF i < e THEN s.runs[i] ELSE s.runs[i + 1]]
    IN IF s.pc = "in_run_now"
       THEN [s EXCEPT !.pc = "run_pending", !.runs = rest]
       ELSE IF s.pc = "in_job"
       THEN [s EXCEPT !.pc = "sleep", !.next_run = s.clock + s.interval,
                      !.runs = rest]
       ELSE [s EXCEPT !.runs = rest]

----------------------------------------------------------------------------
(* State machine *)

\* history: the run of quota errors of credential sel after one more call
QrunAfter(q, sel, result) ==
    IF sel = 0 THEN q
    ELSE IF result.detail = "quota" THEN [q EXCEPT ![sel] = @ + 1]
    ELSE IF result.detail = "published" THEN [q EXCEPT ![sel] = 0]
    ELSE q

RECURSIVE QrunAfterCalls(_, _, _)
QrunAfterCalls(q, calls, k) ==
    IF k > Len(calls) THEN q
    ELSE QrunAfterCalls(QrunAfter(q, calls[k].sel, calls[k].result), calls, k + 1)

NoCall ==
    [op |-> "none", target |-> 0, action |-> "", result |-> Result("", ""),
     remote |-> FALSE, msg |-> <<>>, key |-> <<>>, steps |-> 0, logged |-> 0,
     urls |-> <<>>, raised |-> FALSE, results |-> <<>>,
     url |-> "", limit |-> {}, threshold |-> {}, retry |-> FALSE]

\* history: the message of the structured error the remote call answered
SentMessage(remote, out) ==
    IF remote /\ out.kind = "http" THEN out.msg ELSE <<>>

Brief(c) == [op |-> c.op, target |-> c.target, detail |-> c.result.detail]

\* history: the trailing MaxPool entries of the streak
KeepStreak(st) ==
    IF Len(st) <= MaxPool THEN st
    ELSE SubSeq(st, Len(st) - MaxPool + 1, Len(st))

\* history: the streak after one more index_url that started with the
\* cursor at cur0 and selected sel; any call not answered ends it
StreakAfter(st, cur0, sel, result) ==
    IF result.tag = "response"
    THEN KeepStreak(Append(st, [cur0 |-> cur0, sel |-> sel]))
    ELSE <<>>

RECURSIVE StreakAfterCalls(_, _, _)
StreakAfterCalls(st, calls, k) ==
    IF k > Len(calls) THEN st
    ELSE StreakAfterCalls(StreakAfter(st, calls[k].cur0, calls[k].sel, calls[k].result),
                          calls, k + 1)

\* sequences of distinct key files: what os.listdir offers _load_api_clients
LoadOrders ==
    {files \in UNION {[1..n -> KeyFileNames] : n \in 0..Cardinality(KeyFileNames)} :
        \A i, j \in 1..Len(files) : files[i] = files[j] => i = j}

\* IndexingManager.__init__: one active credential per key file that loads
Init ==
    /\ \E files \in LoadOrders :
         /\ Len(files) <= MaxPool
         /\ api_clients = [i \in 1..Len(files) |->
                              NewClient(PathJoin(ApiKeysDir, <<files[i]>>))]
    /\ current_key_index = 0
    /\ log = <<>>
    /\ url_manager_urls = <<>>
    /\ qrun = [i \in 1..Len(api_clients) |-> 0]
    /\ streak = <<>>
    /\ last = NoCall
    /\ prev = Brief(NoCall)
    /\ scheduler = NotStarted

\* the manager as a call finds it; the log file is only ever appended to,
\* so the call's appends are collected from an empty tail
Manager == [clients |-> api_clients, cur |-> current_key_index, log |-> <<>>]

\* manager.index_url(url, action)
IndexUrl(url, action, out) ==
    \E r \in {index_url(Manager, url, action, out)} :
       /\ api_clients' = r.clients
       /\ current_key_index' = r.cur
       /\ log' = r.log
       /\ qrun' = QrunAfter(qrun, r.sel, r.result)
       /\ last' = [NoCall EXCEPT !.op = "index_url", !.target = r.sel,
                       !.action = action, !.result = r.result,
                       !.remote = r.remote, !.steps = r.steps,
                       !.logged = r.logged,
                       !.msg = SentMessage(r.remote, out)]
       /\ streak' = StreakAfter(streak, current_key_index, r.sel, r.result)
       /\ prev' = Brief(last)
       /\ scheduler' = scheduler
       /\ UNCHANGED url_manager_urls

\* manager.api_clients[i].request_indexing(url, action)
RequestIndexing(i, url, action, out) ==
    \E r \in {request_indexing(api_clients[i], url, action, out)} :
       /\ api_clients' = [api_clients EXCEPT ![i] = r.client]
       /\ qrun' = QrunAfter(qrun, i, r.result)
       /\ last' = [NoCall EXCEPT !.op = "request_indexing", !.target = i,
                       !.action = action, !.result = r.result,
                       !.remote = r.remote,
                       !.msg = SentMessage(r.remote, out)]
       /\ streak' = <<>>
       /\ prev' = Brief(last)
       /\ scheduler' = scheduler
       /\ log' = <<>>
       /\ UNCHANGED <<current_key_index, url_manager_urls>>

\* manager.activate_key(key_file)
ActivateKey(key_file) ==
    \E r \in {activate_key(api_clients, key_file)} :
       /\ api_clients' = r.clients
       /\ qrun' = IF r.found THEN [qrun EXCEPT ![r.idx] = 0] ELSE qrun
       /\ last' = [NoCall EXCEPT !.op = "activate_key", !.target = r.idx,
                       !.key = key_file,
                       !.result = Result(IF r.found THEN "True" ELSE "False", "")]
       /\ streak' = <<>>
       /\ prev' = Brief(last)
       /\ scheduler' = scheduler
       /\ log' = <<>>
       /\ UNCHANGED <<current_key_index, url_manager_urls>>

\* manager.add_api_key(service_account_file)
AddApiKey(service_account_file, loads) ==
    /\ loads => Len(api_clients) < MaxPool
    /\ \E r \in {add_api_key(api_clients, service_account_file, loads)} :
          /\ api_clients' = r.clients
          /\ qrun' = IF r.added THEN Append(qrun, 0) ELSE qrun
          /\ last' = [NoCall EXCEPT !.op = "add_api_key",
                          !.key = service_account_file,
                          !.target = IF r.added THEN Len(r.clients) ELSE 0,
                          !.result = Result(IF r.added THEN "True" ELSE "False", "")]
    /\ streak' = <<>>
    /\ prev' = Brief(last)
    /\ scheduler' = scheduler
    /\ log' = <<>>
    /\ UNCHANGED <<current_key_index, url_manager_urls>>

\* manager.index_urls(urls, action)
IndexUrls(urls, action, outs) ==
    \E r \in {index_urls(Manager, urls, action, outs)} :
       /\ api_clients' = r.clients
       /\ current_key_index' = r.cur
       /\ log' = r.log
       /\ qrun' = QrunAfterCalls(qrun, r.calls, 1)
       /\ last' = [NoCall EXCEPT !.op = "index_urls", !.action = action,
                       !.result = IF r.raised THEN r.calls[Len(r.calls)].result
                                  ELSE Result("response", "results"),
                       !.urls = urls, !.raised = r.raised,
                       !.results = r.results]
       /\ streak' = StreakAfterCalls(streak, r.calls, 1)
       /\ prev' = Brief(last)
       /\ scheduler' = scheduler
       /\ UNCHANGED url_manager_urls

UrlLists == UNION {[1..n -> Urls] : n \in 0..MaxBatch}

Next ==
    \/ \E url \in CallUrls, action \in Actions, out \in RemoteOutcomes :
          IndexUrl(url, action, out)
    \/ \E key_file \in KeyArgs : ActivateKey(key_file)
    \/ \E f \in AddArgs, loads \in BOOLEAN : AddApiKey(f, loads)

Spec == Init /\ [][Next]_vars

\* one credential used directly: request_indexing on a pool member, with
\* activate_key to bring it back
NextClient ==
    \/ \E i \in 1..Len(api_clients), url \in CallUrls, action \in Actions,
          out \in RemoteOutcomes : RequestIndexing(i, url, action, out)
    \/ \E key_file \in KeyArgs : ActivateKey(key_file)

SpecClient == Init /\ [][NextClient]_vars

\* the health states a credential can be in: fresh, or after quota errors
\* carrying a quota message, active below the threshold
QuotaMessages == {m \in ApiMessages : IsQuotaMessage[m]}

Healths ==
    {[is_active |-> TRUE, quota_error_count |-> 0, last_error |-> None]}
    \cup {[is_active |-> (n < QuotaThreshold), quota_error_count |-> n,
           last_error |-> Some(m)] : n \in 0..QuotaThreshold, m \in QuotaMessages}

\* index_urls as a function of the manager state it is called in: any pool
\* loaded from the key directory, in any health, with the cursor anywhere
InitBatch ==
    /\ \E files \in LoadOrders :
         /\ Len(files) <= MaxPool
         /\ \E hs \in [1..Len(files) -> Healths] :
              api_clients = [i \in 1..Len(files) |->
                  [service_account_file |-> PathJoin(ApiKeysDir, <<files[i]>>),
                   is_active |-> hs[i].is_active,
                   quota_error_count |-> hs[i].quota_error_count,
                   last_error |-> hs[i].last_error]]
    /\ current_key_index \in 0..(IF Len(api_clients) = 0 THEN 0 ELSE Len(api_clients) - 1)
    /\ log = <<>>
    /\ url_manager_urls = <<>>
    /\ qrun = [i \in 1..Len(api_clients) |-> api_clients[i].quota_error_count]
    /\ streak = <<>>
    /\ last = NoCall
    /\ prev = Brief(NoCall)
    /\ scheduler = NotStarted

NextBatch ==
    \E urls \in UrlLists, action \in Actions :
       \E outs \in [1..Len(urls) -> RemoteOutcomes] :
          /\ last.op = "none"
          /\ IndexUrls(urls, action, outs)

SpecBatch == InitBatch /\ [][NextBatch]_vars

\* what callers pass to add_urls: no URL, a URL twice, two URLs
AddLists == {<<>>, <<"u1", "u1">>, <<"u2", "u3">>}

\* what callers pass as limit and as priority_threshold
Limits == {{}} \cup {{l} : l \in -1..MaxQueue}
Thresholds == {{}, {2}}

\* URLManager.__init__ with no urls.json yet
InitQueue ==
    /\ url_manager_urls = <<>>
    /\ api_clients = <<>>
    /\ current_key_index = 0
    /\ log = <<>>
    /\ qrun = <<>>
    /\ streak = <<>>
    /\ last = NoCall
    /\ prev = Brief(NoCall)
    /\ scheduler = NotStarted

\* url_manager.add_urls(urls, priority)
AddUrls(urls, priority) ==
    /\ \E r \in {add_urls(url_manager_urls, urls, priority)} :
          /\ Len(r.urls) <= MaxQueue
          /\ url_manager_urls' = r.urls
          /\ last' = [NoCall EXCEPT !.op = "add_urls", !.urls = urls,
                          !.steps = r.count]
    /\ prev' = Brief(NoCall)
    /\ scheduler' = scheduler
    /\ UNCHANGED <<api_clients, current_key_index, log, qrun, streak>>

\* url_manager.add_url(url, priority, metadata)
AddUrl(url, priority, metadata) ==
    /\ (\A i \in 1..Len(url_manager_urls) : url_manager_urls[i].url # url)
          => Len(url_manager_urls) < MaxQueue
    /\ \E r \in {add_url(url_manager_urls, url, priority, metadata)} :
          /\ url_manager_urls' = r.urls
          /\ last' = [NoCall EXCEPT !.op = "add_url", !.url = url,
                          !.result = Result(IF r.added THEN "True" ELSE "False", "")]
    /\ prev' = Brief(NoCall)
    /\ scheduler' = scheduler
    /\ UNCHANGED <<api_clients, current_key_index, log, qrun, streak>>

\* url_manager.get_pending_urls(limit, priority_threshold)
GetPendingUrls(limit, priority_threshold) ==
    /\ last' = [NoCall EXCEPT !.op = "get_pending_urls",
                    !.limit = limit, !.threshold = priority_threshold,
                    !.urls = get_pending_urls(url_manager_urls, limit,
                                              priority_threshold)]
    /\ prev' = Brief(NoCall)
    /\ scheduler' = scheduler
    /\ UNCHANGED <<url_manager_urls, api_clients, current_key_index, log,
                   qrun, streak>>

\* url_manager.mark_as_indexed(url, success)
MarkAsIndexed(url, success) ==
    /\ \E r \in {mark_as_indexed(url_manager_urls, url, success)} :
          /\ url_manager_urls' = r.urls
          /\ last' = [NoCall EXCEPT !.op = "mark_as_indexed", !.url = url,
                          !.result = Result(IF r.found THEN "True" ELSE "False", "")]
    /\ prev' = Brief(NoCall)
    /\ scheduler' = scheduler
    /\ UNCHANGED <<api_clients, current_key_index, log, qrun, streak>>

\* url_manager.remove_url(url)
RemoveUrl(url) ==
    /\ \E r \in {remove_url(url_manager_urls, url)} :
          /\ url_manager_urls' = r.urls
          /\ last' = [NoCall EXCEPT !.op = "remove_url", !.url = url,
                          !.result = Result(IF r.removed THEN "True" ELSE "False", "")]
    /\ prev' = Brief(NoCall)
    /\ scheduler' = scheduler
    /\ UNCHANGED <<api_clients, current_key_index, log, qrun, streak>>

\* url_manager.reset_failed_urls()
ResetFailedUrls ==
    /\ \E r \in {reset_failed_urls(url_manager_urls)} :
          /\ url_manager_urls' = r.urls
          /\ last' = [NoCall EXCEPT !.op = "reset_failed_urls", !.steps = r.count]
    /\ prev' = Brief(NoCall)
    /\ scheduler' = scheduler
    /\ UNCHANGED <<api_clients, current_key_index, log, qrun, streak>>

NextQueue ==
    \/ \E a \in AddUrlArgs : AddUrl(a[1], a[2], a[3])
    \/ \E urls \in AddLists, priority \in Priorities : AddUrls(urls, priority)
    \/ \E limit \in Limits, priority_threshold \in Thresholds :
          GetPendingUrls(limit, priority_threshold)
    \/ \E url \in QueueUrls, success \in BOOLEAN : MarkAsIndexed(url, success)
    \/ \E url \in QueueUrls : RemoveUrl(url)
    \/ ResetFailedUrls

SpecQueue == InitQueue /\ [][NextQueue]_vars

\* scheduler.run_indexing_task(batch_size, retry_failed)
RunIndexingTask(batch_size, retry_failed, outs) ==
    \E r \in {run_indexing_task(Manager, url_manager_urls, batch_size,
                                retry_failed, outs)} :
       /\ api_clients' = r.clients
       /\ current_key_index' = r.cur
       /\ log' = r.log
       /\ url_manager_urls' = r.urls
       /\ qrun' = QrunAfterCalls(qrun, r.calls, 1)
       /\ last' = [NoCall EXCEPT !.op = "run_indexing_task",
                       !.action = "URL_UPDATED",
                       !.result = IF r.raised THEN r.calls[Len(r.calls)].result
                                  ELSE Result("response", "None"),
                       !.urls = r.batch, !.raised = r.raised,
                       !.results = r.results,
                       !.limit = {batch_size}, !.retry = retry_failed]
       /\ streak' = StreakAfterCalls(streak, r.calls, 1)
       /\ prev' = Brief(last)
       /\ scheduler' = scheduler

\* the healths the task is started in: fresh, one quota error short of the
\* threshold, deactivated
TaskHealths ==
    {h \in Healths : /\ h.quota_error_count \in {0, QuotaThreshold - 1, QuotaThreshold}
                     /\ h.quota_error_count = 0 => h.last_error = None}

\* the queues the task is started on: records of distinct URLs, of any
\* priority and status
TaskQueues ==
    {us \in UNION {[1..n -> [url : Urls, priority : Priorities,
                              status : Statuses, metadata : {{}}]] :
                      n \in 0..MaxQueue} :
        \A i, j \in 1..Len(us) : us[i].url = us[j].url => i = j}

\* run_indexing_task as a function of the state of the scheduler it runs in
InitTask ==
    /\ \E files \in LoadOrders :
         /\ Len(files) <= MaxPool
         /\ \E hs \in [1..Len(files) -> TaskHealths] :
              api_clients = [i \in 1..Len(files) |->
                  [service_account_file |-> PathJoin(ApiKeysDir, <<files[i]>>),
                   is_active |-> hs[i].is_active,
                   quota_error_count |-> hs[i].quota_error_count,
                   last_error |-> hs[i].last_error]]
    /\ current_key_index \in 0..(IF Len(api_clients) = 0 THEN 0 ELSE Len(api_clients) - 1)
    /\ url_manager_urls \in TaskQueues
    /\ log = <<>>
    /\ qrun = [i \in 1..Len(api_clients) |-> api_clients[i].quota_error_count]
    /\ streak = <<>>
    /\ last = NoCall
    /\ prev = Brief(NoCall)
    /\ scheduler = NotStarted

NextTask ==
    \/ \E batch_size \in 0..MaxBatch, retry_failed \in BOOLEAN :
          \E outs \in [1..Len(PendingBatch(url_manager_urls, batch_size, retry_failed))
                         -> RemoteOutcomes] :
             /\ last.op = "none"
             /\ RunIndexingTask(batch_size, retry_failed, outs)
    \/ /\ last.op = "none"
       /\ ResetFailedUrls

SpecTask == InitTask /\ [][NextTask]_vars

\* key files of the pools on which selections are followed
SelectFiles == <<"a.json", "b.json", "c.json", "d.json">>

\* history: the trailing n entries of the streak
KeepLast(st, n) ==
    IF Len(st) <= n THEN st ELSE SubSeq(st, Len(st) - n + 1, Len(st))

\* the selection of index_url (its call of _get_next_client) on its own:
\* what index_url does next with the credential moves neither the cursor
\* nor, short of a threshold quota error, the set of active credentials
GetNextClient ==
    \E r \in {_get_next_client(api_clients, current_key_index)} :
       /\ current_key_index' = r.cur
       /\ last' = [NoCall EXCEPT !.op = "_get_next_client", !.target = r.sel,
                       !.steps = r.steps]
       /\ streak' = IF r.sel = 0 THEN <<>>
                    ELSE KeepLast(Append(streak, [cur0 |-> current_key_index,
                                                  sel |-> r.sel]),
                                  Len(api_clients))
       /\ prev' = Brief(last)
       /\ scheduler' = scheduler
       /\ UNCHANGED <<api_clients, log, url_manager_urls, qrun>>

\* a pool of up to MaxSelect credentials, each in one of the healths a task
\* starts in, the cursor anywhere
InitSelect ==
    /\ \E n \in 1..(IF MaxSelect < Len(SelectFiles) THEN MaxSelect ELSE Len(SelectFiles)) :
         \E hs \in [1..n -> TaskHealths] :
            api_clients = [i \in 1..n |->
                [service_account_file |-> PathJoin(ApiKeysDir, <<SelectFiles[i]>>),
                 is_active |-> hs[i].is_active,
                 quota_error_count |-> hs[i].quota_error_count,
                 last_error |-> hs[i].last_error]]
    /\ current_key_index \in 0..(Len(api_clients) - 1)
    /\ log = <<>>
    /\ url_manager_urls = <<>>
    /\ qrun = [i \in 1..Len(api_clients) |-> api_clients[i].quota_error_count]
    /\ streak = <<>>
    /\ last = NoCall
    /\ prev = Brief(NoCall)
    /\ scheduler = NotStarted

NextSelect ==
    \/ GetNextClient
    \/ \E key_file \in KeyArgs : ActivateKey(key_file)

SpecSelect == InitSelect /\ [][NextSelect]_vars

\* what the command line passes as --interval, in units of the pacing delay
Intervals == {1, 2}

\* the queue the scheduler is started on
SchedulerQueue ==
    <<UrlData("u1", 1, "pending", {}), UrlData("u2", 1, "pending", {})>>

\* the process before start_scheduler, with the keys of the directory loaded
InitScheduler ==
    /\ \E files \in LoadOrders :
         /\ Len(files) <= MaxPool
         /\ api_clients = [i \in 1..Len(files) |->
                              NewClient(PathJoin(ApiKeysDir, <<files[i]>>))]
    /\ current_key_index = 0
    /\ log = <<>>
    /\ url_manager_urls = SubSeq(SchedulerQueue, 1,
                                 IF MaxQueue < 2 THEN MaxQueue ELSE 2)
    /\ qrun = [i \in 1..Len(api_clients) |-> 0]
    /\ streak = <<>>
    /\ last = NoCall
    /\ prev = Brief(NoCall)
    /\ scheduler = NotStarted

\* start_scheduler up to its immediate call of run_indexing_task: the job
\* is scheduled one interval from now
StartScheduler(interval_minutes, batch_size, retry_failed) ==
    /\ scheduler.pc = "not_started"
    /\ scheduler' = [scheduler EXCEPT
                        !.pc = "in_run_now", !.interval = interval_minutes,
                        !.batch_size = batch_size, !.retry_failed = retry_failed,
                        !.next_run = scheduler.clock + interval_minutes,
                        !.runs = <<NewRun(scheduler.clock, scheduler.clock)>>]
    /\ last' = [NoCall EXCEPT !.op = "start_scheduler"]
    /\ prev' = Brief(last)
    /\ UNCHANGED <<api_clients, current_key_index, log, url_manager_urls,
                   qrun, streak>>

\* schedule.run_pending() in the loop of start_scheduler
RunPending ==
    /\ scheduler.pc = "run_pending"
    /\ scheduler' = run_pending(scheduler)
    /\ last' = [NoCall EXCEPT !.op = "run_pending"]
    /\ prev' = Brief(last)
    /\ UNCHANGED <<api_clients, current_key_index, log, url_manager_urls,
                   qrun, streak>>

\* time.sleep(1) in the loop of start_scheduler
Sleep ==
    /\ scheduler.pc = "sleep"
    /\ scheduler.clock < MaxClock
    /\ scheduler' = [scheduler EXCEPT !.pc = "run_pending", !.clock = @ + 1]
    /\ last' = [NoCall EXCEPT !.op = "sleep"]
    /\ prev' = Brief(last)
    /\ UNCHANGED <<api_clients, current_key_index, log, url_manager_urls,
                   qrun, streak>>

\* execution e of run_indexing_task up to its call of index_urls: the
\* optional reset, the batch, and the return when there is none
TaskStart(e) ==
    /\ e \in 1..Len(scheduler.runs)
    /\ scheduler.runs[e].pc = "start"
    /\ \E us1 \in {IF scheduler.retry_failed
                    THEN reset_failed_urls(url_manager_urls).urls
                    ELSE url_manager_urls} :
          /\ url_manager_urls' = us1
          /\ \E pending_urls \in {get_pending_urls(us1, Some(scheduler.batch_size),
                                                   None)} :
                /\ scheduler' =
                      IF pending_urls = <<>>
                      THEN Returned(scheduler, e)
                      ELSE [scheduler EXCEPT !.runs[e].pc = "index",
                                             !.runs[e].batch = pending_urls]
                /\ last' = [NoCall EXCEPT !.op = "get_pending_urls",
                                !.limit = {scheduler.batch_size},
                                !.retry = scheduler.retry_failed,
                                !.urls = pending_urls]
    /\ prev' = Brief(last)
    /\ UNCHANGED <<api_clients, current_key_index, log, qrun, streak>>

\* one turn of the loop of index_urls in execution e: index_url for the
\* next URL of the batch, then time.sleep(1).  An exception leaving
\* index_url leaves run_indexing_task and start_scheduler with it
TaskIndex(e, out) ==
    /\ e \in 1..Len(scheduler.runs)
    /\ scheduler.runs[e].pc = "index"
    /\ scheduler.clock < MaxClock
    /\ \E r \in {index_url(Manager, Head(scheduler.runs[e].batch),
                            "URL_UPDATED", out)} :
          /\ api_clients' = r.clients
          /\ current_key_index' = r.cur
          /\ log' = r.log
          /\ qrun' = QrunAfter(qrun, r.sel, r.result)
          /\ last' = [NoCall EXCEPT !.op = "index_url", !.target = r.sel,
                          !.action = "URL_UPDATED", !.result = r.result,
                          !.remote = r.remote, !.steps = r.steps,
                          !.logged = r.logged,
                          !.msg = SentMessage(r.remote, out)]
          /\ streak' = StreakAfter(streak, current_key_index, r.sel, r.result)
          /\ scheduler' =
                IF r.result.tag = "raise"
                THEN [scheduler EXCEPT !.pc = "crashed", !.runs = <<>>]
                ELSE [scheduler EXCEPT
                         !.clock = @ + 1,
                         !.runs[e].batch = Tail(@),
                         !.runs[e].results =
                             Append(@, [url |-> Head(scheduler.runs[e].batch),
                                        result |-> r.result]),
                         !.runs[e].pc =
                             IF Len(scheduler.runs[e].batch) = 1
                             THEN "mark" ELSE "index"]
    /\ prev' = Brief(last)
    /\ UNCHANGED url_manager_urls

\* the status write-back of execution e of run_indexing_task, and its return
TaskMark(e) ==
    /\ e \in 1..Len(scheduler.runs)
    /\ scheduler.runs[e].pc = "mark"
    /\ url_manager_urls' = MarkResults(url_manager_urls,
                                       scheduler.runs[e].results, 1)
    /\ scheduler' = Returned(scheduler, e)
    /\ last' = [NoCall EXCEPT !.op = "mark_as_indexed",
                    !.results = scheduler.runs[e].results]
    /\ prev' = Brief(last)
    /\ UNCHANGED <<api_clients, current_key_index, log, qrun, streak>>

NextScheduler ==
    \/ \E interval_minutes \in Intervals, batch_size \in 1..MaxBatch,
          retry_failed \in BOOLEAN :
          StartScheduler(interval_minutes, batch_size, retry_failed)
    \/ RunPending
    \/ Sleep
    \/ \E e \in 1..Len(scheduler.runs) : TaskStart(e)
    \/ \E e \in 1..Len(scheduler.runs), out \in RemoteOutcomes : TaskIndex(e, out)
    \/ \E e \in 1..Len(scheduler.runs) : TaskMark(e)

SpecScheduler == InitScheduler /\ [][NextScheduler]_vars

\* the health states over every quota message of the model
HealthsAll ==
    {[is_active |-> TRUE, quota_error_count |-> 0, last_error |-> None]}
    \cup {[is_active |-> (n < QuotaThreshold), quota_error_count |-> n,
           last_error |-> Some(m)] :
              n \in 0..QuotaThreshold, m \in {x \in Messages : IsQuotaMessage[x]}}

\* request_indexing as a function of the credential's health and of what
\* the remote call answers: one credential, in any health, called once
InitMessages ==
    /\ \E h \in HealthsAll :
         api_clients = <<[service_account_file |-> PathJoin(ApiKeysDir, <<"a.json">>),
                          is_active |-> h.is_active,
                          quota_error_count |-> h.quota_error_count,
                          last_error |-> h.last_error]>>
    /\ current_key_index = 0
    /\ log = <<>>
    /\ url_manager_urls = <<>>
    /\ qrun = <<api_clients[1].quota_error_count>>
    /\ streak = <<>>
    /\ last = NoCall
    /\ prev = Brief(NoCall)
    /\ scheduler = NotStarted

NextMessages ==
    \E url \in CallUrls, action \in Actions, out \in RemoteOutcomesAll :
       /\ last.op = "none"
       /\ RequestIndexing(1, url, action, out)

SpecMessages == InitMessages /\ [][NextMessages]_vars

----------------------------------------------------------------------------
(* Properties *)

Pool == 1..Len(api_clients)
CallOps == {"index_url", "request_indexing"}
AllActive == \A i \in Pool : api_clients[i].is_active
NoneActive == \A i \in Pool : ~api_clients[i].is_active

\* C1 -- threshold deactivation.  Counting a credential's quota errors from
\* its last successful call (or its activation), the credential is still
\* active after the 1st and the 2nd quota error and inactive after the 3rd;
\* a further request_indexing on it, whatever the remote would answer, makes
\* no remote call and leaves is_active, quota_error_count and last_error as
\* they were after the 3rd.
ThresholdDeactivation ==
    [][\A i \in Pool :
         /\ (last'.op \in CallOps /\ last'.target = i
                /\ last'.result.detail = "quota")
              => /\ qrun'[i] < QuotaThreshold => api_clients'[i].is_active
                 /\ qrun'[i] >= QuotaThreshold => ~api_clients'[i].is_active
         /\ (last'.op \in CallOps /\ last'.target = i
                /\ qrun[i] >= QuotaThreshold)
              => /\ api_clients'[i] = api_clients[i]
                 /\ ~last'.remote]_vars

\* a 4th request_indexing has been made on a credential deactivated by its
\* 3rd quota error
FourthCallAfterThreshold ==
    /\ last.op = "request_indexing"
    /\ last.result.detail = "key_inactive"
    /\ prev.op = "request_indexing" /\ prev.target = last.target
    /\ prev.detail = "quota"
    /\ qrun[last.target] = QuotaThreshold

\* C2 -- an inactive credential is never used.  The credential index_url
\* selects, and makes the remote call with, is active when it is selected;
\* and a credential that is inactive becomes active again only by an
\* activate_key for it, so until then every index_url selects another one.
InactiveNeverUsed ==
    [][/\ (last'.op = "index_url" /\ last'.target # 0)
            => api_clients[last'.target].is_active
       /\ (last'.op = "index_url" /\ last'.remote)
            => (last'.target # 0 /\ api_clients[last'.target].is_active)
       /\ \A i \in Pool :
            (~api_clients[i].is_active /\ api_clients'[i].is_active)
               => (last'.op = "activate_key" /\ last'.target = i)]_vars

\* index_url has passed over a deactivated credential to select another
SelectedPastInactive ==
    /\ last.op = "index_url"
    /\ last.target # 0
    /\ last.steps > 1
    /\ \E i \in Pool : ~api_clients[i].is_active /\ i # last.target

\* C3 -- submissions keep flowing.  Whenever some credential of the pool is
\* active, whatever the cursor, index_url selects an active credential and
\* does not answer "no active API clients".
FlowsWhileUsable ==
    [][(last'.op = "index_url" /\ \E i \in Pool : api_clients[i].is_active)
          => /\ last'.target # 0
             /\ api_clients[last'.target].is_active
             /\ last'.result.detail # "no_active_clients"]_vars

\* the only active credential was the last one the scan could reach
SelectedAfterFullScan ==
    /\ last.op = "index_url"
    /\ last.target # 0
    /\ Len(api_clients) >= 2
    /\ last.steps = Len(api_clients)

\* C4 -- round-robin fairness.  In a pool of N credentials, all active, N
\* index_url calls in a row that were all answered selected the credentials
\* in pool order starting from the one at the cursor of the first call and
\* wrapping around, each exactly once.
RoundRobinFairness ==
    LET n == Len(api_clients)
    IN (n >= 1 /\ AllActive /\ Len(streak) >= n)
         => LET w == SubSeq(streak, Len(streak) - n + 1, Len(streak))
            IN /\ \A k \in 1..n : w[k].sel = ((w[1].cur0 + k - 1) % n) + 1
               /\ \A i \in 1..n : Cardinality({k \in 1..n : w[k].sel = i}) = 1

\* N answered calls in a row on an all-active pool, begun off position 0
FullRoundFromMidPool ==
    LET n == Len(api_clients)
    IN /\ n >= 2
       /\ AllActive
       /\ Len(streak) >= n
       /\ streak[Len(streak) - n + 1].cur0 # 0

\* C5 -- exhaustion.  When the pool is empty or every credential is
\* inactive, index_url returns the "no active API clients" error: it does
\* not raise, makes no remote call, selects nothing, and examines at most
\* len(pool) credentials.
Exhaustion ==
    [][(last'.op = "index_url" /\ NoneActive)
          => /\ last'.result = Result("error", "no_active_clients")
             /\ ~last'.remote
             /\ last'.target = 0
             /\ last'.steps <= Len(api_clients)]_vars

\* index_url has been called on a non-empty pool with no active credential
CalledWhenExhausted ==
    /\ last.op = "index_url"
    /\ last.result.detail = "no_active_clients"
    /\ Len(api_clients) >= 1
    /\ NoneActive

\* C6 -- reactivation liveness.  When activate_key has just succeeded for a
\* credential and every other credential is inactive, the next index_url
\* selects exactly that credential, wherever the cursor is, and (the action
\* being one of the two valid ones) makes the remote call with it.
ReactivationLiveness ==
    [][(/\ last.op = "activate_key"
        /\ last.result.tag = "True"
        /\ \A j \in Pool : j # last.target => ~api_clients[j].is_active
        /\ last'.op = "index_url")
          => /\ last'.target = last.target
             /\ last'.action \in ValidActions => last'.remote]_vars

\* the call after a reactivation in an otherwise inactive pool reached the
\* reactivated credential after passing over another one
SelectedAfterReactivation ==
    /\ prev.op = "activate_key" /\ prev.target # 0
    /\ last.op = "index_url" /\ last.target = prev.target
    /\ last.remote
    /\ last.steps >= 2
    /\ \A j \in Pool : j # last.target => ~api_clients[j].is_active

\* C7 -- index_urls never aborts early: it returns one (url, outcome) pair
\* per input URL, in input order, whatever happens to each URL.
BatchNeverAborts ==
    last.op = "index_urls"
       => /\ ~last.raised
          /\ Len(last.results) = Len(last.urls)
          /\ \A k \in 1..Len(last.urls) : last.results[k].url = last.urls[k]

\* C8 -- reset on success.  A successful call leaves the credential's
\* quota_error_count at 0, and a quota error on the call right after it
\* brings the count to exactly 1 and leaves the credential active.
ResetOnSuccess ==
    [][\A i \in Pool :
         (last'.op \in CallOps /\ last'.target = i)
            => /\ last'.result.detail = "published"
                    => api_clients'[i].quota_error_count = 0
               /\ (/\ last'.result.detail = "quota"
                   /\ last.op \in CallOps /\ last.target = i
                   /\ last.result.detail = "published")
                    => /\ api_clients'[i].quota_error_count = 1
                       /\ api_clients'[i].is_active]_vars

\* a quota error right after a success on the same credential
QuotaErrorAfterSuccess ==
    /\ last.op \in CallOps
    /\ last.result.detail = "quota"
    /\ prev.op \in CallOps /\ prev.target = last.target
    /\ prev.detail = "published"
    /\ api_clients[last.target].quota_error_count = 1

\* C9 -- a non-quota structured API error resets the credential's
\* quota_error_count to 0.
NonQuotaErrorResetsCount ==
    [][\A i \in Pool :
         (last'.op \in CallOps /\ last'.target = i
             /\ last'.result.detail = "api")
            => api_clients'[i].quota_error_count = 0]_vars

\* C10 -- an index_url with an action other than URL_UPDATED / URL_DELETED
\* is rejected as an input-contract violation in every pool state: no remote
\* call, no result-log entry, and the violation is what the caller gets.
InvalidActionRejected ==
    (last.op = "index_url" /\ last.action \notin ValidActions)
       => /\ ~last.remote
          /\ last.logged = 0 /\ log = <<>>
          /\ last.result = Result("raise", "ValueError")

\* C11 -- a batch stops at pool exhaustion: once an index_url of index_urls
\* has answered "no active API clients", index_urls makes no index_url call
\* for the URLs that remain in the list.
BatchStopsOnExhaustion ==
    (last.op = "index_urls" /\ ~last.raised)
       => \A k \in 1..Len(last.results) :
             last.results[k].result.detail = "no_active_clients"
                => k = Len(last.urls)

\* the call c made the remote call and it failed without a well-formed API
\* error: the publish call raised something other than HttpError (answered
\* "unexpected"), or raised an HttpError whose content does not decode
UnexpectedFailure(c) ==
    c.remote /\ c.result.detail \in {"unexpected", "JSONDecodeError"}

\* C12 -- an unexpected failure of the remote call (network exception,
\* malformed or undecodable error response) makes request_indexing return an
\* error outcome and leaves the credential's is_active, quota_error_count
\* and last_error as they were.
UnexpectedFailureReturned ==
    [][\A i \in Pool :
         (last'.op = "request_indexing" /\ last'.target = i
             /\ UnexpectedFailure(last'))
            => /\ last'.result.tag = "error"
               /\ api_clients'[i] = api_clients[i]]_vars

\* C13 -- last_error asymmetry.  A request_indexing whose API error is
\* classified as a quota error leaves last_error equal to that error's
\* message; one whose API error is not leaves last_error and is_active as
\* they were, does not increment quota_error_count, and still returns an
\* error to the caller.
LastErrorAsymmetry ==
    [][\A i \in Pool :
         (last'.op = "request_indexing" /\ last'.target = i)
            => /\ last'.result.detail = "quota"
                    => api_clients'[i].last_error = Some(last'.msg)
               /\ last'.result.detail = "api"
                    => /\ api_clients'[i].last_error = api_clients[i].last_error
                       /\ api_clients'[i].quota_error_count
                             <= api_clients[i].quota_error_count
                       /\ api_clients'[i].is_active = api_clients[i].is_active
                       /\ last'.result.tag = "error"]_vars

\* a non-quota API error on a credential that carries the message of an
\* earlier quota error
ApiErrorAfterQuotaError ==
    /\ last.op = "request_indexing"
    /\ last.result.detail = "api"
    /\ last.msg = MsgInternal
    /\ api_clients[last.target].last_error = Some(MsgUserRateLimit)
    /\ api_clients[last.target].quota_error_count = 2

\* two characters are the same letter in either case, or the same character
EqualIgnoringCase(a, b) ==
    \/ a = b
    \/ \E i \in 1..Len(UpperChars) : {a, b} = {UpperChars[i], LowerChars[i]}

\* needle occurs in hay, letters compared without regard to case
ContainsIgnoringCase(needle, hay) ==
    \E k \in 0..(Len(hay) - Len(needle)) :
        \A j \in 1..Len(needle) : EqualIgnoringCase(hay[k + j], needle[j])

\* C20 -- classification is a function of the message alone.  Whatever the
\* health of the credential, an API error is answered as a quota error iff
\* its message contains, case-insensitively, one of the six patterns; so
\* "Error 429: userRateLimitExceeded: too many requests" is one and
\* "Error 500: internal error" is not.
ClassificationByPattern ==
    (last.op = "request_indexing" /\ last.msg # <<>>)
       => /\ Len(quota_error_messages) = 6
          /\ last.result.detail \in {"quota", "api"}
          /\ last.result.detail = "quota"
                <=> \E p \in 1..Len(quota_error_messages) :
                       ContainsIgnoringCase(quota_error_messages[p], last.msg)
          /\ last.msg = MsgUserRateLimit => last.result.detail = "quota"
          /\ last.msg = MsgInternal => last.result.detail = "api"

\* a message matching a pattern only when case is ignored was classified as
\* a quota error on a credential that already carried quota errors
UpperCaseMessageClassified ==
    /\ last.op = "request_indexing"
    /\ last.msg = MsgQuotaCamel
    /\ last.result.detail = "quota"
    /\ api_clients[last.target].quota_error_count = 2

\* the credentials that key_file names: by their file or by its base name
Named(key_file) ==
    {i \in Pool : \/ api_clients[i].service_account_file = key_file
                  \/ Basename(api_clients[i].service_account_file) = key_file}

\* C17 -- activate_key for a credential of the pool returns True and leaves
\* that credential active with quota_error_count 0, whatever its health was,
\* changing nothing else; and an activate_key for it right after another
\* changes nothing at all.
ActivateKeyResets ==
    [][(last'.op = "activate_key" /\ Named(last'.key) # {})
          => /\ last'.result.tag = "True"
             /\ last'.target \in Named(last'.key)
             /\ api_clients'[last'.target].is_active
             /\ api_clients'[last'.target].quota_error_count = 0
             /\ api_clients' =
                   [api_clients EXCEPT ![last'.target].is_active = TRUE,
                                       ![last'.target].quota_error_count = 0]
             /\ current_key_index' = current_key_index
             /\ (last.op = "activate_key" /\ last.key = last'.key)
                   => api_clients' = api_clients]_vars

\* activate_key has been applied twice in a row to a credential that had
\* taken quota errors
ActivatedTwice ==
    /\ last.op = "activate_key" /\ prev.op = "activate_key"
    /\ last.target # 0 /\ prev.target = last.target
    /\ api_clients[last.target].last_error # None
    /\ \E j \in Pool : ~api_clients[j].is_active

\* C18 -- activate_key with a key_file that names no credential of the pool
\* returns False (it does not raise) and leaves every credential's
\* is_active, quota_error_count and last_error, and the cursor, unchanged.
ActivateKeyNotFound ==
    [][(last'.op = "activate_key" /\ Named(last'.key) = {})
          => /\ last'.result.tag = "False"
             /\ last'.target = 0
             /\ api_clients' = api_clients
             /\ current_key_index' = current_key_index]_vars

\* activate_key has missed on a pool holding a deactivated credential, the
\* cursor off position 0
MissedWithInactiveKey ==
    /\ last.op = "activate_key"
    /\ last.key = <<"zzz.json">>
    /\ last.result.tag = "False"
    /\ current_key_index # 0
    /\ \E j \in Pool : ~api_clients[j].is_active

\* C19 -- add_api_key.  A successful add returns True and appends one
\* credential at the end of the pool, active, with quota_error_count 0 and
\* no last_error, for the copy of the file in the keys directory; the
\* credentials already there keep their order and health, and the cursor
\* stays.  A failed add returns False and leaves pool and cursor as they were.
AddApiKeyAppends ==
    [][last'.op = "add_api_key"
          => /\ current_key_index' = current_key_index
             /\ last'.result.tag \in {"True", "False"}
             /\ last'.result.tag = "True"
                   => /\ Len(api_clients') = Len(api_clients) + 1
                      /\ \A i \in Pool : api_clients'[i] = api_clients[i]
                      /\ api_clients'[Len(api_clients')] =
                            [service_account_file |->
                                ApiKeysDir \o <<last'.key[Len(last'.key)]>>,
                             is_active |-> TRUE,
                             quota_error_count |-> 0,
                             last_error |-> None]
             /\ last'.result.tag = "False"
                   => api_clients' = api_clients]_vars

\* a credential has been added behind a deactivated one
AddedBehindInactiveKey ==
    /\ last.op = "add_api_key"
    /\ last.result.tag = "True"
    /\ Len(api_clients) >= 2
    /\ ~api_clients[1].is_active
    /\ api_clients[1].quota_error_count = QuotaThreshold
    /\ api_clients[Len(api_clients)].is_active

\* C16 -- one result-log record per index_url.  Every index_url that returns
\* (a response, a quota error, another API error, or "no active API
\* clients") has appended exactly one entry to the result log, for its URL
\* and action, whose success flag is true iff the call was answered.
OneLogRecordPerCall ==
    (last.op = "index_url" /\ last.result.tag # "raise")
       => /\ last.logged = 1
          /\ Len(log) = 1
          /\ log[1].success = (last.result.tag = "response")
          /\ log[1].action = last.action

\* record i of the queue comes before record j in the order of selection:
\* higher priority first, stored order among equal priorities
SelectedBefore(us, i, j) ==
    \/ us[i].priority > us[j].priority
    \/ us[i].priority = us[j].priority /\ i < j

CursorInRange ==
    Len(api_clients) > 0
       => current_key_index \in 0..(Len(api_clients) - 1)

\* the cursor has wrapped to 0 behind the last credential of a pool of
\* several, a scan of more than one credential having ended there
CursorWrapped ==
    /\ last.op = "index_url"
    /\ Len(api_clients) >= 2
    /\ last.target = Len(api_clients)
    /\ last.steps >= 2
    /\ current_key_index = 0

\* C23 -- selection scan steps.  An index_url examines at most len(pool)
\* credentials, the cursor moves by one (mod len) for each credential
\* examined, and after the credential at index i (0-based) is selected the
\* cursor is (i + 1) mod len(pool).
ScanSteps ==
    [][last'.op = "index_url"
          => /\ last'.steps <= Len(api_clients)
             /\ Len(api_clients) > 0
                   => current_key_index' =
                         (current_key_index + last'.steps) % Len(api_clients)
             /\ Len(api_clients) = 0 => current_key_index' = current_key_index
             /\ last'.target # 0
                   => /\ last'.steps >= 1
                      /\ current_key_index' =
                            ((last'.target - 1) + 1) % Len(api_clients)]_vars

\* a scan begun at the last position has passed over that credential,
\* wrapped, and selected the first one
SelectedAfterWrap ==
    /\ last.op = "index_url"
    /\ Len(api_clients) >= 2
    /\ last.target = 1
    /\ last.steps = 2
    /\ current_key_index = 1
    /\ ~api_clients[Len(api_clients)].is_active

\* the positions of the active credentials
ActiveSet == {i \in Pool : api_clients[i].is_active}

\* how many positions lie between position i and position a going round
\* the pool from i (0 when a comes right after i)
StepsBetween(i, a) == (a - i - 1) % Len(api_clients)

\* C22 -- fairness with a mixed pool.  With k >= 1 of the N credentials
\* active and that set unchanged, any k selections in a row pick every
\* active credential exactly once and no inactive one, each selection being
\* the next active credential going round the pool from the one before (the
\* first of them the next from the cursor), so none is starved.
MixedPoolFairness ==
    LET k == Cardinality(ActiveSet)
    IN (k >= 1 /\ Len(streak) >= k)
         => LET w == SubSeq(streak, Len(streak) - k + 1, Len(streak))
            IN /\ {w[j].sel : j \in 1..k} = ActiveSet
               /\ \A a \in ActiveSet : Cardinality({j \in 1..k : w[j].sel = a}) = 1
               /\ \A a \in ActiveSet :
                     StepsBetween(w[1].cur0, w[1].sel) <= StepsBetween(w[1].cur0, a)
               /\ \A j \in 1..(k - 1) : \A a \in ActiveSet :
                     StepsBetween(w[j].sel, w[j + 1].sel) <= StepsBetween(w[j].sel, a)

\* in a pool of three with the middle credential inactive, two selections
\* in a row have gone from the last credential round to the first
RoundPastInactive ==
    /\ Len(api_clients) = 3
    /\ ActiveSet = {1, 3}
    /\ last.op = "_get_next_client"
    /\ Len(streak) >= 3
    /\ streak[Len(streak) - 1].sel = 3
    /\ streak[Len(streak)].sel = 1

\* C24 -- health invariant.  Every credential of the pool that is inactive
\* has a quota_error_count of at least 3: reaching the threshold is the only
\* way a credential of the pool becomes inactive (a credential whose service
\* fails to initialize never enters the pool).
InactiveOnlyByThreshold ==
    \A i \in Pool :
       ~api_clients[i].is_active
          => api_clients[i].quota_error_count >= QuotaThreshold

\* a failed add_api_key on a pool whose credentials are all deactivated
FailedAddOnExhaustedPool ==
    /\ last.op = "add_api_key"
    /\ last.result.tag = "False"
    /\ Len(api_clients) >= 1
    /\ NoneActive

\* C27 -- counter/flag coupling.  Every credential of the pool has
\* quota_error_count in {0, 1, 2, 3} and is active iff its count is below 3;
\* calls on a deactivated credential return before the remote call and do
\* not raise the count further.
CounterFlagCoupling ==
    \A i \in Pool :
       /\ api_clients[i].quota_error_count \in 0..QuotaThreshold
       /\ api_clients[i].is_active
             <=> api_clients[i].quota_error_count < QuotaThreshold

\* two calls in a row have been turned away by a deactivated credential
\* whose count stands at the threshold
TurnedAwayTwice ==
    /\ last.op = "request_indexing" /\ prev.op = "request_indexing"
    /\ prev.target = last.target
    /\ last.result.detail = "key_inactive" /\ prev.detail = "key_inactive"
    /\ ~last.remote
    /\ api_clients[last.target].quota_error_count = QuotaThreshold

\* C28 -- state unchanged on rejected input.  An index_url rejected for an
\* invalid action leaves the cursor where it was and every credential's
\* is_active, quota_error_count and last_error as they were.
RejectedCallChangesNothing ==
    [][(last'.op = "index_url" /\ last'.result = Result("raise", "ValueError"))
          => /\ current_key_index' = current_key_index
             /\ api_clients' = api_clients]_vars

\* no two records of the queue us share a url
UniqueUrls(us) ==
    \A i, j \in 1..Len(us) : us[i].url = us[j].url => i = j

\* C26 -- starting from a queue without duplicate URLs, after any add_url,
\* add_urls, mark_as_indexed, reset_failed_urls or remove_url no two records
\* share a url; add_url of a URL already present returns False and leaves the
\* queue, so that record's status, priority and metadata, unchanged.
UrlsStayUnique ==
    [][ /\ UniqueUrls(url_manager_urls) => UniqueUrls(url_manager_urls')
        /\ ( /\ last'.op = "add_url"
             /\ \E i \in 1..Len(url_manager_urls) :
                   url_manager_urls[i].url = last'.url )
           => /\ last'.result.tag = "False"
              /\ url_manager_urls' = url_manager_urls ]_vars

\* add_url was refused for a URL whose record is indexed, carries metadata
\* and sits next to another record
RefusedAddOfIndexedUrl ==
    /\ last.op = "add_url"
    /\ last.result.tag = "False"
    /\ Len(url_manager_urls) = 2
    /\ \E i \in 1..Len(url_manager_urls) :
          /\ url_manager_urls[i].url = last.url
          /\ url_manager_urls[i].status = "indexed"
          /\ url_manager_urls[i].metadata # {}

\* C29 -- a run of run_indexing_task, with or without retry_failed, never
\* submits a URL whose status is 'indexed' and never changes that record;
\* every URL it submits is pending when the batch is drawn (after the reset
\* when retry_failed is given); reset_failed_urls turns exactly the failed
\* records to pending, returns their number and leaves the others unchanged.
IndexedIsFinal ==
    [][ /\ last'.op = "run_indexing_task"
           => /\ \A i \in 1..Len(url_manager_urls) :
                    url_manager_urls[i].status = "indexed"
                    => /\ \A k \in 1..Len(last'.urls) :
                             last'.urls[k] # url_manager_urls[i].url
                       /\ Len(url_manager_urls') >= i
                       /\ url_manager_urls'[i] = url_manager_urls[i]
              /\ \A k \in 1..Len(last'.urls) :
                    \E i \in 1..Len(url_manager_urls) :
                       /\ url_manager_urls[i].url = last'.urls[k]
                       /\ \/ url_manager_urls[i].status = "pending"
                          \/ /\ last'.retry
                             /\ url_manager_urls[i].status = "failed"
        /\ last'.op = "reset_failed_urls"
           => /\ Len(url_manager_urls') = Len(url_manager_urls)
              /\ \A i \in 1..Len(url_manager_urls) :
                    IF url_manager_urls[i].status = "failed"
                    THEN url_manager_urls'[i] =
                            [url_manager_urls[i] EXCEPT !.status = "pending"]
                    ELSE url_manager_urls'[i] = url_manager_urls[i]
              /\ last'.steps = Cardinality({i \in 1..Len(url_manager_urls) :
                                  url_manager_urls[i].status = "failed"}) ]_vars

\* a retrying run submitted a URL that had failed and left it failed again,
\* next to a record that stayed indexed
RetriedNextToIndexed ==
    /\ last.op = "run_indexing_task"
    /\ last.retry
    /\ ~last.raised
    /\ Len(last.urls) = 1
    /\ \E i, j \in 1..Len(url_manager_urls) :
          /\ url_manager_urls[i].status = "indexed"
          /\ url_manager_urls[j].url = last.urls[1]
          /\ url_manager_urls[j].status = "failed"

\* C25 -- under start_scheduler at most one execution of run_indexing_task
\* is in progress; a run starts only when none is in progress, so after the
\* pacing delays and the status write-back of the run before it; the
\* cursor and the credentials change only in a step of the one run in
\* progress.
OneBatchAtATime ==
    [][ /\ Len(scheduler'.runs) <= 1
        /\ Len(scheduler'.runs) > Len(scheduler.runs) => scheduler.runs = <<>>
        /\ (api_clients' # api_clients \/ current_key_index' # current_key_index)
           => /\ Len(scheduler.runs) = 1
              /\ scheduler.runs[1].pc = "index" ]_vars

\* a scheduled run that came due while the run before it was going: it
\* started late and has submitted a URL
ScheduledRunStartedLate ==
    /\ Len(scheduler.runs) = 1
    /\ scheduler.pc = "in_job"
    /\ scheduler.runs[1].started > scheduler.runs[1].due
    /\ scheduler.runs[1].results # <<>>

====
